---- MODULE Spec2Model ----
(***************************************************************************)
(* Model of the voronoi-rs diagram builder (src/src/build.rs) and of the   *)
(* DCEL container it returns (src/src/diagram.rs).                         *)
(*                                                                         *)
(* f32 values are modelled by small integers, which f32 represents and     *)
(* adds exactly, plus one value NaN that every comparison answers false    *)
(* for.  Option<T> is modelled by a sequence of length at most one.        *)
(***************************************************************************)
EXTENDS Integers, Sequences, FiniteSets, TLC

VARIABLES
    bounding_rect,  \* the Rect given to DiagramBuilder::new
    input_sites,    \* the Vec<Site> given to DiagramBuilder::new
    builder,        \* the DiagramBuilder (struct fields as record fields)
    pc,             \* "start" (before new) | "built" (the caller holds the
                    \* builder) | "finishing" (inside finish()) | "done"
                    \* (finish() returned) | "panic"
    ret,            \* what the last step() call returned: "none" | "true" | "false"
    result,         \* Option<Diagram>: what finish() returned
    popped,         \* history: the events popped by step() in this construction
    handled,        \* history: the handler calls made by step() in this
                    \* construction: [handler |-> "site" | "circle", arg]
    finish_entry,   \* Option of [step, queued]: the step counter and the queue
                    \* length when finish() was entered
    run,            \* 1 for the first construction, 2 for the repeated one
    first_popped,   \* history: popped of the first construction, once it is done
    first_result,   \* history: result of the first construction
    diagram,        \* a Diagram in the hands of a caller of the accessors
    query           \* Option of the last accessor call: [kind, handle, answer]

vars == <<bounding_rect, input_sites, builder, pc, ret, result, popped, handled,
          finish_entry, run, first_popped, first_result, diagram, query>>

-----------------------------------------------------------------------------
(* Bounds of the model *)

MaxSites == 3

MaxCoord == 3

MaxManualSteps == 3

MaxLen == 2

MaxHandle == 3

MaxQueued == 2

-----------------------------------------------------------------------------
(* Option<T> *)

None == <<>>

Some(x) == <<x>>

-----------------------------------------------------------------------------
(* f32 *)

NaN == 1000

\* f32::partial_cmp
F32PartialCmp(a, b) ==
    IF a = NaN \/ b = NaN THEN None
    ELSE IF a < b THEN Some("Less")
    ELSE IF a = b THEN Some("Equal")
    ELSE Some("Greater")

\* the operators <, > and == of f32
F32Lt(a, b) == F32PartialCmp(a, b) = Some("Less")

F32Gt(a, b) == F32PartialCmp(a, b) = Some("Greater")

F32Eq(a, b) == F32PartialCmp(a, b) = Some("Equal")

\* unary minus and + of f32
F32Neg(a) == IF a = NaN THEN NaN ELSE 0 - a

F32Add(a, b) == IF a = NaN \/ b = NaN THEN NaN ELSE a + b

-----------------------------------------------------------------------------
(* Rect *)

Point2(px, py) == [x |-> px, y |-> py]

left(rect) == rect.position.x

top(rect) == rect.position.y

right(rect) == F32Add(rect.position.x, rect.size.x)

bottom(rect) == F32Add(rect.position.y, rect.size.y)

\* the same test with the boundary taken as inside
contains_point_closed(rect, point) ==
    /\ ~F32Lt(point.x, left(rect)) /\ ~F32Lt(point.y, top(rect))
    /\ ~F32Gt(point.x, right(rect)) /\ ~F32Gt(point.y, bottom(rect))

contains_point(rect, point) ==
    /\ F32Gt(point.x, left(rect)) /\ F32Gt(point.y, top(rect))
    /\ F32Lt(point.x, right(rect)) /\ F32Lt(point.y, bottom(rect))

-----------------------------------------------------------------------------
(* Event and its ordering *)

SiteEvent(y, site_id) == [kind |-> "Site", y |-> y, id |-> site_id]

CircleEvent(y, circle_id) == [kind |-> "Circle", y |-> y, id |-> circle_id]

get_y(event) == event.y

\* impl PartialEq for Event
EventEq(a, b) == F32Eq(get_y(a), get_y(b))

\* the comparison without the negation: the largest y first
EventPartialCmpUnnegated(a, b) == F32PartialCmp(get_y(a), get_y(b))

\* the comparison with ties decided by a value that differs from one
\* construction to the next (an address, a hash seed)
EventPartialCmpPerRun(a, b) ==
    LET c == F32PartialCmp(F32Neg(get_y(a)), F32Neg(get_y(b)))
    IN  IF c = Some("Equal") /\ a.id # b.id
        THEN (IF (a.id < b.id) = (run = 1) THEN Some("Less") ELSE Some("Greater"))
        ELSE c

\* impl PartialOrd for Event
EventPartialCmp(a, b) ==
    LET y == F32Neg(get_y(a))
        other_y == F32Neg(get_y(b))
    IN  F32PartialCmp(y, other_y)

\* impl Ord for Event
EventCmp(a, b) ==
    LET c == EventPartialCmp(a, b)
    IN  IF c = None THEN "Less" ELSE c[1]

\* the operators <= and > that PartialOrd derives from partial_cmp
EventLe(a, b) == EventPartialCmp(a, b) \in {Some("Less"), Some("Equal")}

EventGt(a, b) == EventPartialCmp(a, b) = Some("Greater")

-----------------------------------------------------------------------------
(* BinaryHeap<Event>: a max-heap in a vector; position p of the vector is   *)
(* element p + 1 of the sequence.                                          *)

Swap(data, p, q) == [data EXCEPT ![p + 1] = data[q + 1], ![q + 1] = data[p + 1]]

RECURSIVE sift_up(_, _, _)
sift_up(data, start, pos) ==
    IF pos > start
    THEN LET parent == (pos - 1) \div 2
         IN  IF EventLe(data[pos + 1], data[parent + 1])
             THEN data
             ELSE sift_up(Swap(data, pos, parent), start, parent)
    ELSE data

\* the hole moves down to a leaf, always to the greater child (the right one
\* unless the left one is greater); it answers the data and the leaf reached
RECURSIVE sift_down_hole(_, _)
sift_down_hole(data, pos) ==
    LET end == Len(data)
        child == 2 * pos + 1
        right_child == child + 1
    IN  IF child < end
        THEN LET c == IF right_child < end
                         /\ ~EventGt(data[child + 1], data[right_child + 1])
                      THEN right_child ELSE child
             IN  sift_down_hole(Swap(data, pos, c), c)
        ELSE [data |-> data, pos |-> pos]

sift_down_to_bottom(data, pos) ==
    LET d == sift_down_hole(data, pos)
    IN  sift_up(d.data, pos, d.pos)

\* BinaryHeap::push
HeapPush(data, item) == sift_up(Append(data, item), 0, Len(data))

\* a pop that takes a heap of one element for an empty one
HeapPopDropsLast(data) ==
    IF Len(data) <= 1 THEN [item |-> None, data |-> <<>>]
    ELSE LET item == data[Len(data)]
             rest == SubSeq(data, 1, Len(data) - 1)
         IN  [item |-> Some(rest[1]),
              data |-> sift_down_to_bottom([rest EXCEPT ![1] = item], 0)]

\* a pop that answers the greatest element and leaves it in the heap
HeapPopKeeps(data) ==
    IF data = <<>> THEN [item |-> None, data |-> data]
    ELSE [item |-> Some(data[1]), data |-> data]

\* BinaryHeap::pop: the last element takes the root's place and sifts down
HeapPop(data) ==
    IF data = <<>> THEN [item |-> None, data |-> data]
    ELSE LET item == data[Len(data)]
             rest == SubSeq(data, 1, Len(data) - 1)
         IN  IF rest = <<>>
             THEN [item |-> Some(item), data |-> rest]
             ELSE [item |-> Some(rest[1]),
                   data |-> sift_down_to_bottom([rest EXCEPT ![1] = item], 0)]

-----------------------------------------------------------------------------
(* Diagram (src/src/diagram.rs) *)

DiagramDefault == [vertices |-> <<>>, halfedges |-> <<>>, faces |-> <<>>]

\* a lookup that counts handles from one
VecGetOneBased(v, index) ==
    IF index >= 1 /\ index <= Len(v) THEN Some(v[index]) ELSE None

\* Vec::get with the handle's number as index
VecGet(v, index) ==
    IF index < Len(v) THEN Some(v[index + 1]) ELSE None

get_vertex(d, vertex_id) == VecGet(d.vertices, vertex_id)

get_half_edge(d, halfedge_id) == VecGet(d.halfedges, halfedge_id)

get_face(d, face_id) == VecGet(d.faces, face_id)

-----------------------------------------------------------------------------
(* Circles and the beachline *)

\* struct Circle
Circle(position, radius, arc) ==
    [position |-> position, radius |-> radius, arc |-> arc]

\* circumcircle_of_points on finite coordinates.  The centre (x / d, y / d)
\* is kept as the numerators x, y and the denominator d; the radius, a
\* square root, as its square r2 / (d * d).
circumcircle_of_points(a, b, c) ==
    LET d    == 2 * (a.x * (b.y - c.y) + b.x * (c.y - a.y) + c.x * (a.y - b.y))
        axy2 == a.x * a.x + a.y * a.y
        bxy2 == b.x * b.x + b.y * b.y
        cxy2 == c.x * c.x + c.y * c.y
        x    == axy2 * (b.y - c.y) + bxy2 * (c.y - a.y) + cxy2 * (a.y - b.y)
        y    == axy2 * (c.x - b.x) + bxy2 * (a.x - c.x) + cxy2 * (b.x - a.x)
    IN  IF d = 0 THEN None
        ELSE Some([x |-> x, y |-> y, d |-> d,
                   r2 |-> (a.x * d - x) * (a.x * d - x)
                            + (a.y * d - y) * (a.y * d - y)])

\* enum BeachLineNode
Leaf(arc, site, circle) ==
    [kind |-> "Leaf", arc |-> arc, site |-> site, circle |-> circle]

Inner(l, r, edge) == [kind |-> "Inner", left |-> l, right |-> r, edge |-> edge]

\* the ArcIds of the leaves under a beachline node, from left to right
RECURSIVE ArcSeqOf(_)
ArcSeqOf(node) ==
    IF node.kind = "Leaf" THEN <<node.arc>>
    ELSE ArcSeqOf(node.left) \o ArcSeqOf(node.right)

\* the arcs on the beachline, from left to right
ArcSeq(beachline) == IF beachline = None THEN <<>> ELSE ArcSeqOf(beachline[1])

Arcs(beachline) == {ArcSeq(beachline)[k] : k \in DOMAIN ArcSeq(beachline)}

NumArcs(beachline) == Len(ArcSeq(beachline))

\* the arcs next to the arc on the beachline
Neighbours(beachline, arc) ==
    LET seq == ArcSeq(beachline)
    IN  {seq[k] : k \in {n \in DOMAIN seq :
                            \/ n > 1 /\ seq[n - 1] = arc
                            \/ n < Len(seq) /\ seq[n + 1] = arc}}

\* the arc is on the beachline with an arc on either side
HasBothNeighbours(beachline, arc) ==
    LET seq == ArcSeq(beachline)
    IN  \E k \in 2..(Len(seq) - 1) : seq[k] = arc

-----------------------------------------------------------------------------
(* DiagramBuilder *)

Site(position) == [position |-> position]

EmptyMap == [k \in {} |-> k]

\* a loop that numbers the sites it queues, not the sites it is given
RECURSIVE seed_events_renumbered(_, _, _, _)
seed_events_renumbered(rect, sites, i, event_queue) ==
    IF i > Len(sites) THEN event_queue
    ELSE seed_events_renumbered(rect, sites, i + 1,
             IF contains_point(rect, sites[i].position)
             THEN HeapPush(event_queue,
                           SiteEvent(sites[i].position.y, Len(event_queue)))
             ELSE event_queue)

\* the for loop of DiagramBuilder::new, from the i-th site on
RECURSIVE seed_events(_, _, _, _)
seed_events(rect, sites, i, event_queue) ==
    IF i > Len(sites) THEN event_queue
    ELSE seed_events(rect, sites, i + 1,
             IF contains_point(rect, sites[i].position)
             THEN HeapPush(event_queue, SiteEvent(sites[i].position.y, i - 1))
             ELSE event_queue)

\* DiagramBuilder::new
New(rect, sites) ==
    [ sites            |-> sites,
      circles          |-> EmptyMap,
      beachline        |-> None,
      step             |-> 0,
      total_events     |-> 0,
      cancelled_events |-> 0,
      debug            |-> FALSE,
      event_queue      |-> seed_events(rect, sites, 1, <<>>) ]

\* a handler that finds a circle under the site and queues its event
handle_site_event_queues_circle(b, site) ==
    [b EXCEPT !.circles = [id \in {0} |-> Circle(site.position, 1, 0)],
              !.event_queue = HeapPush(@, CircleEvent(site.position.y + 1, 0)),
              !.total_events = @ + 1]

\* the bodies of both handlers are commented out in the source
handle_site_event(b, site) == b

handle_circle_event(b, circle) == b

\* a removal that takes some entry out when the key has none
MapRemoveAny(map, key) ==
    LET k1 == IF key \in DOMAIN map \/ DOMAIN map = {} THEN key
              ELSE CHOOSE k \in DOMAIN map : TRUE
    IN  [ value |-> IF k1 \in DOMAIN map THEN Some(map[k1]) ELSE None,
          map   |-> [k \in (DOMAIN map) \ {k1} |-> map[k]] ]

\* FnvHashMap::remove: the value the key had, and the map without the key
MapRemove(map, key) ==
    [ value |-> IF key \in DOMAIN map THEN Some(map[key]) ELSE None,
      map   |-> [k \in (DOMAIN map) \ {key} |-> map[k]] ]

\* a handler call as the history records it
Handled(handler, arg) == [handler |-> handler, arg |-> arg]

\* DiagramBuilder::step: the builder afterwards, what the call returned, the
\* event it popped, the handler it called, and whether the site lookup went
\* out of range
step(b) ==
    LET p  == HeapPop(b.event_queue)
        b1 == [b EXCEPT !.step = @ + 1, !.event_queue = p.data]
    IN  IF p.item = None
        THEN [builder |-> b1, ret |-> "true", event |-> None, handled |-> None,
              panic |-> FALSE]
        ELSE LET event == p.item[1]
             IN  IF event.kind = "Site"
                 THEN IF event.id < Len(b1.sites)
                      THEN [builder |-> handle_site_event(b1, b1.sites[event.id + 1]),
                            ret |-> "false", event |-> p.item,
                            handled |-> Some(Handled("site", b1.sites[event.id + 1])),
                            panic |-> FALSE]
                      ELSE [builder |-> b1, ret |-> "none", event |-> p.item,
                            handled |-> None, panic |-> TRUE]
                 ELSE LET r  == MapRemove(b1.circles, event.id)
                          b2 == [b1 EXCEPT !.circles = r.map]
                      IN  IF r.value # None
                          THEN [builder |-> handle_circle_event(b2, r.value[1]),
                                ret |-> "false", event |-> p.item,
                                handled |-> Some(Handled("circle", r.value[1])),
                                panic |-> FALSE]
                          ELSE [builder |-> b2, ret |-> "false", event |-> p.item,
                                handled |-> None, panic |-> FALSE]

-----------------------------------------------------------------------------
(* Inputs *)

YCoords == (0..MaxCoord) \cup {NaN}

\* one column inside the rectangles' x range, two more points inside it, one
\* point on the left edge and one with no x at all
SitePoints ==
    {Point2(1, y) : y \in YCoords}
        \cup {Point2(2, 1), Point2(2, 2), Point2(0, 1), Point2(NaN, 2)}

SiteLists ==
    UNION {[1..n -> {Site(p) : p \in SitePoints}] : n \in 0..MaxSites}

Rects ==
    {[position |-> Point2(0, py), size |-> sz] :
        py \in {0, 1}, sz \in {Point2(3, MaxCoord), Point2(0, MaxCoord), Point2(3, 0 - 1)}}

Vertices ==
    {[coordinates |-> Point2(0, 0), incident_edge |-> 0],
     [coordinates |-> Point2(1, 2), incident_edge |-> 1]}

HalfEdges ==
    {[origin |-> 0, twin |-> 1, incident_face |-> 0, next |-> 0, prev |-> 0],
     [origin |-> 1, twin |-> 0, incident_face |-> 1, next |-> 1, prev |-> 1]}

Faces == {[first_halfedge |-> 0], [first_halfedge |-> 1]}

SeqsUpTo(S, n) == UNION {[1..k -> S] : k \in 0..n}

Diagrams ==
    [vertices : SeqsUpTo(Vertices, MaxLen),
     halfedges : SeqsUpTo(HalfEdges, MaxLen),
     faces : SeqsUpTo(Faces, MaxLen)]

-----------------------------------------------------------------------------
(* The construction: new, then step() calls by the caller, then finish() *)

Init ==
    /\ run = 1
    /\ bounding_rect \in Rects
    /\ input_sites \in SiteLists
    /\ builder = New(bounding_rect, input_sites)
    /\ pc = "built"
    /\ ret = "none"
    /\ result = None
    /\ popped = <<>>
    /\ handled = <<>>
    /\ finish_entry = None
    /\ first_popped = <<>>
    /\ first_result = None
    /\ diagram = DiagramDefault
    /\ query = None

\* the caller calls step() on the builder it holds
StepCall ==
    /\ pc = "built"
    /\ builder.step < MaxManualSteps
    /\ \E s \in {step(builder)} :
           /\ builder' = s.builder
           /\ ret' = s.ret
           /\ popped' = popped \o s.event
           /\ handled' = handled \o s.handled
           /\ pc' = IF s.panic THEN "panic" ELSE "built"
    /\ UNCHANGED <<bounding_rect, input_sites, result, finish_entry, run,
                   first_popped, first_result, diagram, query>>

\* the caller calls finish(), which takes the builder
Finish ==
    /\ pc = "built"
    /\ pc' = "finishing"
    /\ finish_entry' = Some([step |-> builder.step,
                             queued |-> Len(builder.event_queue)])
    /\ UNCHANGED <<bounding_rect, input_sites, builder, ret, result, popped,
                   handled, run, first_popped, first_result, diagram, query>>

\* one turn of finish()'s loop `while !self.step() {}`; the turn whose step
\* returns true leaves the loop and returns Diagram::default()
FinishTurn ==
    /\ pc = "finishing"
    /\ \E s \in {step(builder)} :
           /\ builder' = s.builder
           /\ ret' = s.ret
           /\ popped' = popped \o s.event
           /\ handled' = handled \o s.handled
           /\ pc' = IF s.panic THEN "panic"
                    ELSE IF s.ret = "true" THEN "done" ELSE "finishing"
           /\ result' = IF ~s.panic /\ s.ret = "true"
                        THEN Some(DiagramDefault) ELSE result
    /\ UNCHANGED <<bounding_rect, input_sites, finish_entry, run, first_popped,
                   first_result, diagram, query>>

\* the same rectangle and site list are given to DiagramBuilder::new again
Rerun ==
    /\ pc = "done"
    /\ run = 1
    /\ run' = 2
    /\ first_popped' = popped
    /\ first_result' = result
    /\ builder' = New(bounding_rect, input_sites)
    /\ pc' = "built"
    /\ ret' = "none"
    /\ result' = None
    /\ popped' = <<>>
    /\ handled' = <<>>
    /\ finish_entry' = None
    /\ UNCHANGED <<bounding_rect, input_sites, diagram, query>>

Next == StepCall \/ Finish \/ FinishTurn \/ Rerun

Spec == Init /\ [][Next]_vars

-----------------------------------------------------------------------------
(* The construction under fairness, for termination.  It starts before the *)
(* call of DiagramBuilder::new and draws the sites from four points: two   *)
(* inside the rectangles at one sweep coordinate, one inside at another,   *)
(* one on the left edge.                                                   *)

FairSitePoints == {Point2(1, 1), Point2(2, 1), Point2(1, 2), Point2(0, 1)}

FairSiteLists == SeqsUpTo({Site(p) : p \in FairSitePoints}, MaxSites)

InitFair ==
    /\ run = 1
    /\ bounding_rect = [position |-> Point2(0, 0), size |-> Point2(0, 0)]
    /\ input_sites = <<>>
    /\ builder = New(bounding_rect, input_sites)
    /\ pc = "start"
    /\ ret = "none"
    /\ result = None
    /\ popped = <<>>
    /\ handled = <<>>
    /\ finish_entry = None
    /\ first_popped = <<>>
    /\ first_result = None
    /\ diagram = DiagramDefault
    /\ query = None

\* the caller calls DiagramBuilder::new
Construct ==
    /\ pc = "start"
    /\ bounding_rect' \in Rects
    /\ input_sites' \in FairSiteLists
    /\ builder' = New(bounding_rect', input_sites')
    /\ pc' = "built"
    /\ UNCHANGED <<ret, result, popped, handled, finish_entry, run, first_popped,
                   first_result, diagram, query>>

NextFair == Construct \/ StepCall \/ Finish \/ FinishTurn

\* finish() is a synchronous loop: once entered, its next turn is taken
FairSpec == InitFair /\ [][NextFair]_vars /\ WF_vars(FinishTurn)

-----------------------------------------------------------------------------
(* The accessors of a Diagram held by a caller *)

InitDiagram ==
    /\ run = 1
    /\ bounding_rect \in {r \in Rects : r.position.y = 0 /\ r.size = Point2(3, MaxCoord)}
    /\ input_sites = <<>>
    /\ builder = New(bounding_rect, input_sites)
    /\ pc = "done"
    /\ ret = "none"
    /\ result = None
    /\ popped = <<>>
    /\ handled = <<>>
    /\ finish_entry = None
    /\ first_popped = <<>>
    /\ first_result = None
    /\ diagram \in Diagrams
    /\ query = None

Lookup(kind, handle, answer) ==
    /\ query' = Some([kind |-> kind, handle |-> handle, answer |-> answer])
    /\ UNCHANGED <<bounding_rect, input_sites, builder, pc, ret, result, popped,
                   handled, finish_entry, run, first_popped, first_result,
                   diagram>>

GetVertex == \E h \in 0..MaxHandle : Lookup("vertex", h, get_vertex(diagram, h))

GetHalfEdge == \E h \in 0..MaxHandle : Lookup("half_edge", h, get_half_edge(diagram, h))

GetFace == \E h \in 0..MaxHandle : Lookup("face", h, get_face(diagram, h))

NextDiagram == GetVertex \/ GetHalfEdge \/ GetFace

SpecDiagram == InitDiagram /\ [][NextDiagram]_vars

-----------------------------------------------------------------------------
(* step() and finish() on the builder values the struct's fields allow: a   *)
(* queue that holds Circle events next to Site events, live and cancelled   *)
(* circles with their events queued, and a beachline on which the arc of    *)
(* every live circle has both its neighbours.                               *)
(* DiagramBuilder::new produces none of these; they are the states the      *)
(* Circle branch of step() is written for.                                  *)

CircleIds == {0, 1}

\* the circle of id: centre (1, 1 + id), radius 1, closing arc id + 1
CircleOf(id) == Circle(Point2(1, 1 + id), 1, id + 1)

\* the key of a circle's event is the bottom of the circle
CircleEventOf(id) ==
    CircleEvent(CircleOf(id).position.y + CircleOf(id).radius, id)

StepSiteLists == SeqsUpTo({Site(Point2(1, 1)), Site(Point2(1, 2))}, 2)

StepEvents(sites) ==
    {SiteEvent(sites[i].position.y, i - 1) : i \in DOMAIN sites}
        \cup {CircleEventOf(id) : id \in CircleIds}

\* the heap after pushing the first n of the events, in order
RECURSIVE HeapOf(_, _)
HeapOf(events, n) ==
    IF n = 0 THEN <<>> ELSE HeapPush(HeapOf(events, n - 1), events[n])

CircleMaps == {[id \in S |-> CircleOf(id)] : S \in SUBSET CircleIds}

\* the leaf of an arc (of site 0), naming the arc's circle if it is live
LeafOf(arc, circles) ==
    Leaf(arc, 0, IF (arc - 1) \in DOMAIN circles THEN Some(arc - 1) ELSE None)

\* beachlines of up to four arcs on which the arc of every live circle has
\* both its neighbours
BeachLines(circles) ==
    LET L(arc) == LeafOf(arc, circles)
    IN  {b \in {None,
                Some(L(0)),
                Some(Inner(L(0), L(1), 0)),
                Some(Inner(Inner(L(0), L(1), 0), L(2), 1)),
                Some(Inner(Inner(L(0), L(1), 0), Inner(L(2), L(3), 2), 1))} :
            \A id \in DOMAIN circles : HasBothNeighbours(b, circles[id].arc)}

InitStep ==
    /\ run = 1
    /\ bounding_rect = [position |-> Point2(0, 0), size |-> Point2(3, MaxCoord)]
    /\ input_sites \in StepSiteLists
    /\ \E events \in SeqsUpTo(StepEvents(input_sites), MaxQueued),
          circles \in CircleMaps :
       \E beachline \in BeachLines(circles) :
           /\ beachline # None => input_sites # <<>>
           /\ \A id \in DOMAIN circles :
                  \E k \in DOMAIN events : events[k] = CircleEventOf(id)
           /\ builder = [ sites            |-> input_sites,
                          circles          |-> circles,
                          beachline        |-> beachline,
                          step             |-> 0,
                          total_events     |-> 0,
                          cancelled_events |-> 0,
                          debug            |-> FALSE,
                          event_queue      |-> HeapOf(events, Len(events)) ]
    /\ pc = "built"
    /\ ret = "none"
    /\ result = None
    /\ popped = <<>>
    /\ handled = <<>>
    /\ finish_entry = None
    /\ first_popped = <<>>
    /\ first_result = None
    /\ diagram = DiagramDefault
    /\ query = None

NextStep == StepCall \/ Finish \/ FinishTurn

SpecStep == InitStep /\ [][NextStep]_vars

-----------------------------------------------------------------------------
(* Vocabulary of the properties *)

\* the i-th input site lies strictly inside the bounding rectangle
StrictlyInside(i) ==
    LET p == input_sites[i].position
    IN  /\ p.x # NaN /\ p.y # NaN
        /\ bounding_rect.position.x < p.x
        /\ p.x < bounding_rect.position.x + bounding_rect.size.x
        /\ bounding_rect.position.y < p.y
        /\ p.y < bounding_rect.position.y + bounding_rect.size.y

\* the SiteIds (counted from 0) of the strictly-interior input sites
InteriorIds == {i - 1 : i \in {k \in 1..Len(input_sites) : StrictlyInside(k)}}

IsPrefix(s, t) == Len(s) <= Len(t) /\ s = SubSeq(t, 1, Len(s))

NonPositiveRect == bounding_rect.size.x <= 0 \/ bounding_rect.size.y <= 0

-----------------------------------------------------------------------------
(* C1 *)

\* C1: the Diagram finish() returns has one face per strictly-interior site
\* (so N faces for N >= 2 distinct, non-collinear, in-bounds sites).
C1_FaceCount ==
    result # None => Len(result[1].faces) = Cardinality(InteriorIds)

-----------------------------------------------------------------------------
(* C2 *)

\* C2: right after DiagramBuilder::new (no step taken yet) the queue holds
\* exactly one Site event, with the site's y, for every strictly-interior
\* site and nothing else; the beachline is empty and no circle is live.
C2_InitialQueue ==
    builder.step = 0 =>
        /\ \A id \in InteriorIds :
              Cardinality({k \in DOMAIN builder.event_queue :
                  builder.event_queue[k]
                      = SiteEvent(input_sites[id + 1].position.y, id)}) = 1
        /\ \A k \in DOMAIN builder.event_queue :
              /\ builder.event_queue[k].kind = "Site"
              /\ builder.event_queue[k].id \in InteriorIds
        /\ Len(builder.event_queue) = Cardinality(InteriorIds)
        /\ builder.beachline = None
        /\ DOMAIN builder.circles = {}

\* a fresh builder for an input with an interior site, a site on the
\* boundary and a site that is neither inside nor on the boundary
C2_Witness ==
    /\ builder.step = 0
    /\ Cardinality(InteriorIds) = 1
    /\ \E i \in 1..Len(input_sites) :
          /\ ~StrictlyInside(i)
          /\ contains_point_closed(bounding_rect, input_sites[i].position)
    /\ \E i \in 1..Len(input_sites) :
          ~contains_point_closed(bounding_rect, input_sites[i].position)

-----------------------------------------------------------------------------
(* C3 *)

\* C3: with a rectangle of non-positive width or height the construction
\* fails: no step pops an event and no Diagram is returned.
C3_InvalidRectFails ==
    NonPositiveRect => (result = None /\ popped = <<>>)

-----------------------------------------------------------------------------
(* C4 *)

\* C4: an accessor answers the record stored at index h when h is less than
\* the length of its collection and None for every other handle, and the
\* Diagram is the same after the call.
C4_Lookup ==
    /\ [](query # None =>
            LET q == query[1]
                coll == IF q.kind = "vertex" THEN diagram.vertices
                        ELSE IF q.kind = "half_edge" THEN diagram.halfedges
                        ELSE diagram.faces
            IN  /\ q.handle < Len(coll) =>
                     /\ Len(q.answer) = 1
                     /\ q.answer[1] = coll[q.handle + 1]
                /\ q.handle >= Len(coll) => q.answer = None)
    /\ [][diagram' = diagram]_vars

\* the last half-edge of a Diagram with two has been looked up and found,
\* and it is not the first one
C4_Witness ==
    /\ query # None
    /\ query[1].kind = "half_edge"
    /\ query[1].handle = 1
    /\ Len(diagram.halfedges) = 2
    /\ diagram.halfedges[1] # diagram.halfedges[2]
    /\ query[1].answer = Some(diagram.halfedges[2])

-----------------------------------------------------------------------------
(* C5 *)

\* C5: the sweep coordinates of the events popped by successive step()
\* calls never decrease.
C5_SweepMonotone ==
    \A i, j \in DOMAIN popped :
        i < j => F32PartialCmp(popped[i].y, popped[j].y)
                     \in {Some("Less"), Some("Equal")}

\* three events popped at rising coordinates, the first popped being the
\* last pushed
C5_Witness ==
    /\ Len(popped) = 3
    /\ popped[1].y < popped[2].y
    /\ popped[2].y <= popped[3].y
    /\ popped[1].id = 2

-----------------------------------------------------------------------------
(* C6 *)

\* C6: finish() terminates; it returns exactly at the step() call that
\* finds the queue empty and returns true; every step() that returns false
\* has removed exactly one event from the queue.
C6_FinishTerminates ==
    /\ (pc = "finishing") ~> (pc = "done")
    /\ [][(builder'.step = builder.step + 1 /\ ret' = "false")
            => Len(builder'.event_queue) = Len(builder.event_queue) - 1]_vars
    /\ [][(builder'.step = builder.step + 1 /\ pc = "finishing")
            => /\ (ret' = "true") = (builder.event_queue = <<>>)
               /\ (pc' = "done") = (ret' = "true")
               /\ (pc' = "finishing") = (ret' = "false")]_vars

\* finish() has returned after its loop processed three events
C6_Witness ==
    /\ pc = "done"
    /\ Len(popped) = 3
    /\ builder.step = 4
    /\ builder.event_queue = <<>>

-----------------------------------------------------------------------------
(* C7 *)

-----------------------------------------------------------------------------
(* C8 *)

\* C8: two distinct queued events never compare as equal, and site events
\* that share a sweep coordinate are popped in the order of their site index.
C8_SecondaryKey ==
    /\ \A i, j \in DOMAIN builder.event_queue :
          i # j => ~EventEq(builder.event_queue[i], builder.event_queue[j])
    /\ \A i, j \in DOMAIN popped :
          (i < j /\ popped[i].y = popped[j].y) => popped[i].id < popped[j].id

-----------------------------------------------------------------------------
(* C9 *)

\* C9: in the Diagram finish() returns, every half-edge is the twin of its
\* twin and does not share its incident face with its twin.
C9_Twins ==
    result # None =>
        LET d == result[1]
        IN  \A e \in DOMAIN d.halfedges :
                /\ d.halfedges[e].twin + 1 \in DOMAIN d.halfedges
                /\ d.halfedges[d.halfedges[e].twin + 1].twin + 1 = e
                /\ d.halfedges[d.halfedges[e].twin + 1].incident_face
                       # d.halfedges[e].incident_face

\* no returned Diagram holds a half-edge
C9_NoHalfEdgeReturned ==
    result # None => result[1].halfedges = <<>>

-----------------------------------------------------------------------------
(* C10 *)

\* the half-edge reached from e by n steps along next (handles from 0)
RECURSIVE NextN(_, _, _)
NextN(d, e, n) ==
    IF n = 0 THEN e
    ELSE IF e + 1 \in DOMAIN d.halfedges
         THEN NextN(d, d.halfedges[e + 1].next, n - 1)
         ELSE e

\* C10: in the Diagram finish() returns, the next chain of every half-edge
\* is a cycle whose length is the number of half-edges of its face, and it
\* first returns to the start after exactly that many steps.
C10_FaceCycles ==
    result # None =>
        LET d == result[1]
        IN  \A e \in DOMAIN d.halfedges :
                LET face == d.halfedges[e].incident_face
                    n == Cardinality({x \in DOMAIN d.halfedges :
                             d.halfedges[x].incident_face = face})
                IN  /\ NextN(d, e - 1, n) = e - 1
                    /\ \A k \in 1..(n - 1) : NextN(d, e - 1, k) # e - 1
                    /\ \A k \in 0..n :
                          LET x == NextN(d, e - 1, k)
                          IN  /\ x + 1 \in DOMAIN d.halfedges
                              /\ d.halfedges[x + 1].incident_face = face

\* no returned Diagram holds a face
C10_NoFaceReturned ==
    result # None => result[1].faces = <<>>

-----------------------------------------------------------------------------
(* Vocabulary of the properties on circle events and the beachline *)

\* the number of circle events realized so far: calls of handle_circle_event
NumRealized == Cardinality({i \in DOMAIN handled : handled[i].handler = "circle"})

\* the number of Site events handled so far: calls of handle_site_event
NumSiteHandled == Cardinality({i \in DOMAIN handled : handled[i].handler = "site"})

-----------------------------------------------------------------------------
(* C11 *)

\* C11: for exactly three strictly-interior sites that are not collinear,
\* finish() realizes exactly one circle event and returns a Diagram with one
\* vertex, at the circumcenter of the three sites, three faces, and three
\* edges (six half-edges, three of them leaving that vertex).
C11_ThreeSites ==
    (/\ pc = "done"
     /\ Len(input_sites) = 3
     /\ Cardinality(InteriorIds) = 3
     /\ circumcircle_of_points(input_sites[1].position, input_sites[2].position,
                               input_sites[3].position) # None)
    => LET cc == circumcircle_of_points(input_sites[1].position,
                                        input_sites[2].position,
                                        input_sites[3].position)[1]
           d  == result[1]
       IN  /\ NumRealized = 1
           /\ Len(d.vertices) = 1
           /\ d.vertices[1].coordinates.x * cc.d = cc.x
           /\ d.vertices[1].coordinates.y * cc.d = cc.y
           /\ Len(d.faces) = 3
           /\ Len(d.halfedges) = 6
           /\ Cardinality({h \in DOMAIN d.halfedges : d.halfedges[h].origin = 0}) = 3

-----------------------------------------------------------------------------
(* C12 *)

\* how often x occurs in the sequence
Count(seq, x) == Cardinality({i \in DOMAIN seq : seq[i] = x})

\* this step() call pops a Circle event whose key is not in the circles map
PopsCancelledCircle ==
    /\ builder'.step = builder.step + 1
    /\ Len(popped') = Len(popped) + 1
    /\ popped'[Len(popped')].kind = "Circle"
    /\ popped'[Len(popped')].id \notin DOMAIN builder.circles

\* C12: a step() call that pops a Circle event whose key is not in the
\* circles map discards it: no handler runs, the beachline, the circles map
\* and the Diagram are as before, the queue is the old queue less the popped
\* event, and step() returns false.
C12_CancelledCircleDiscarded ==
    [][PopsCancelledCircle
       => /\ ret' = "false"
          /\ handled' = handled
          /\ builder'.beachline = builder.beachline
          /\ builder'.circles = builder.circles
          /\ Len(builder'.event_queue) = Len(builder.event_queue) - 1
          /\ \A k \in DOMAIN builder.event_queue :
                 LET e == builder.event_queue[k]
                 IN  Count(builder'.event_queue, e)
                       = Count(builder.event_queue, e)
                           - (IF e = popped'[Len(popped')] THEN 1 ELSE 0)
          /\ result' = result
          /\ pc' = pc]_vars

\* a first step() popped a cancelled Circle event ahead of another event,
\* with a circle live and a beachline present
C12_Witness ==
    /\ builder.step = 1
    /\ Len(popped) = 1
    /\ popped[1].kind = "Circle"
    /\ handled = <<>>
    /\ ret = "false"
    /\ DOMAIN builder.circles # {}
    /\ builder.beachline # None
    /\ builder.event_queue # <<>>

-----------------------------------------------------------------------------
(* C13 *)

\* this step() call realizes a circle event: it calls handle_circle_event
RealizesCircle ==
    /\ Len(handled') = Len(handled) + 1
    /\ handled'[Len(handled')].handler = "circle"

-----------------------------------------------------------------------------
(* C14 *)

\* C14: every handled Site event puts one arc on the beachline: the first
\* makes the empty beachline a single arc, every later one splits an arc in
\* two around the new one, so while no circle event has been realized the
\* beachline holds 2k - 1 arcs after k Site events (none before the first).
C14_ArcPerSiteEvent ==
    NumRealized = 0
    => NumArcs(builder.beachline)
         = (IF NumSiteHandled = 0 THEN 0 ELSE 2 * NumSiteHandled - 1)

-----------------------------------------------------------------------------
(* C15 *)

-----------------------------------------------------------------------------
(* C16 *)

\* how many Site events of the SiteId have been popped, and are queued
TimesPopped(id) ==
    Cardinality({k \in DOMAIN popped :
                    popped[k].kind = "Site" /\ popped[k].id = id})

TimesQueued(id) ==
    Cardinality({k \in DOMAIN builder.event_queue :
                    /\ builder.event_queue[k].kind = "Site"
                    /\ builder.event_queue[k].id = id})

\* C16: the builder keeps the whole site list it was given; every queued
\* Site event carries an index into that list and the y of the site at that
\* index; the site lookup of step() never goes out of range and hands the
\* handler the site at the popped index; every strictly-interior site has
\* exactly one Site event, queued or popped (so popped exactly once when
\* finish() has returned), and every other site none.
C16_SiteIds ==
    /\ builder.sites = input_sites
    /\ \A k \in DOMAIN builder.event_queue :
           LET e == builder.event_queue[k]
           IN  e.kind = "Site"
               => /\ e.id \in 0..(Len(builder.sites) - 1)
                  /\ e.y = builder.sites[e.id + 1].position.y
    /\ pc # "panic"
    /\ Len(handled) = Len(popped)
    /\ \A k \in DOMAIN popped :
           /\ handled[k].handler = "site"
           /\ handled[k].arg = input_sites[popped[k].id + 1]
    /\ \A i \in DOMAIN input_sites :
           /\ TimesPopped(i - 1) + TimesQueued(i - 1)
                = (IF StrictlyInside(i) THEN 1 ELSE 0)
           /\ pc = "done"
               => TimesPopped(i - 1) = (IF StrictlyInside(i) THEN 1 ELSE 0)

\* finish() has returned for three sites of which the first is excluded and
\* the other two, strictly inside, have been processed
C16_Witness ==
    /\ pc = "done"
    /\ Len(input_sites) = 3
    /\ ~StrictlyInside(1)
    /\ StrictlyInside(2)
    /\ StrictlyInside(3)
    /\ TimesPopped(0) = 0
    /\ TimesPopped(1) = 1
    /\ TimesPopped(2) = 1

-----------------------------------------------------------------------------
(* C17 *)

\* this step is a step() call: by the caller, or by a turn of finish()'s loop
IsStepCall == (pc = "built" /\ pc' # "finishing") \/ pc = "finishing"

\* a step() call returns true exactly on an empty queue and adds one to the
\* step counter; after a call that returned true, a call returns true again
\* and changes nothing in the builder but the step counter
StepReturnsTrueOnEmpty ==
    /\ [][IsStepCall
          => /\ builder'.step = builder.step + 1
             /\ (ret' = "true") = (builder.event_queue = <<>>)]_vars
    /\ [][IsStepCall /\ ret = "true"
          => /\ ret' = "true"
             /\ builder' = [builder EXCEPT !.step = @ + 1]
             /\ popped' = popped
             /\ handled' = handled]_vars

\* the step() calls finish() has made
FinishStepCalls == builder.step - finish_entry[1].step

\* the events ever pushed on the queue: those popped and those still queued
NumEnqueued == Len(popped) + Len(builder.event_queue)

\* C17 as stated: step() returns true exactly on an empty queue, counts every
\* call, and stays true without further effect; finish() makes (number of
\* events ever enqueued) + 1 step() calls.
C17_FinishStepsEnqueued ==
    /\ StepReturnsTrueOnEmpty
    /\ [](pc = "done" => FinishStepCalls = NumEnqueued + 1)

\* C17, amended: step() returns true exactly on an empty queue, counts every
\* call, and stays true without further effect; finish() makes (number of
\* events queued when finish() is called) + 1 step() calls, which is (number
\* of events ever enqueued) + 1 when no step() call came before it.
C17_FinishStepsQueued ==
    /\ StepReturnsTrueOnEmpty
    /\ [](pc = "done"
            => /\ FinishStepCalls = finish_entry[1].queued + 1
               /\ finish_entry[1].step = 0 => FinishStepCalls = NumEnqueued + 1)

\* the caller's first step() popped the only event, its second returned
\* true, and finish(), entered on the empty queue, returned after one more
C17_Witness ==
    /\ pc = "done"
    /\ finish_entry = Some([step |-> 2, queued |-> 0])
    /\ Len(popped) = 1
    /\ builder.step = 3
    /\ ret = "true"

-----------------------------------------------------------------------------
(* C18 *)

\* C18: from DiagramBuilder::new on, through every step() and finish(), the
\* circles map is empty, the beachline is None, and every event queued or
\* popped is a Site event; nothing is queued after new, the circle handler
\* is never called, and when finish() has returned, the events processed
\* are as many as the strictly-interior sites.
C18_NoCircleEver ==
    /\ DOMAIN builder.circles = {}
    /\ builder.beachline = None
    /\ \A k \in DOMAIN builder.event_queue : builder.event_queue[k].kind = "Site"
    /\ \A k \in DOMAIN popped : popped[k].kind = "Site"
    /\ NumRealized = 0
    /\ NumSiteHandled = Len(popped)
    /\ Len(popped) + Len(builder.event_queue) = Cardinality(InteriorIds)
    /\ pc = "done" => Len(popped) = Cardinality(InteriorIds)

\* finish() has returned on its third step() call for three sites, two of
\* them strictly inside
C18_Witness ==
    /\ pc = "done"
    /\ Len(input_sites) = 3
    /\ Cardinality(InteriorIds) = 2
    /\ NumSiteHandled = 2
    /\ builder.step = 3
    /\ finish_entry = Some([step |-> 0, queued |-> 2])


====
